---- MODULE Spec2Model ----
(***************************************************************************)
(* A model of the paged lock free list of src/collections/lflist.rs:       *)
(* BufferMeta (one page of slots with a cursor, a next pointer and a       *)
(* reference count), BufferRef (the scoped borrow) and List (push,         *)
(* exclusive_push, pop, drop_out_all, prepend_with, count).  Every atomic  *)
(* access of the source to shared memory is one step of a thread.          *)
(***************************************************************************)
EXTENDS Integers, Sequences, FiniteSets, TLC

(* ------------------------------ bounds -------------------------------- *)
MaxBufs == 6
MaxCap == 2
MaxOps == 4
GarbageWord == 7
FirstTag == 10
WordBits == 4

(* ------------------------- program constants -------------------------- *)
EMPTY_SLOT == 0
SENTINEL_SLOT == 1
\* mem::size_of::<usize>() on a 64 bit target, as drop_out_all uses it
WordSize == 8

NULL == 0
SLOT_DATA_OFFSET == 5
BufIds == 1..MaxBufs
Lists == {"A", "B"}
Threads == {1, 2}
SlotIdx == 0..MaxCap
\* 2^n
RECURSIVE Pow2(_)
Pow2(n) == IF n = 0 THEN 1 ELSE 2 * Pow2(n - 1)

VARIABLES
    heap,             \* BufferMeta and its slots, by address
    list_head,        \* List.head, per list
    list_count,       \* List.count, per list
    buffer_cap,       \* List.buffer_cap, per list
    pc,               \* where each thread is
    loc,              \* the locals of each thread's running operation
    hist,             \* the operations that returned, in order of return
    started,          \* the number of operations started
    ub,               \* a thread touched a buffer that was deallocated, or
                      \* memory outside the region of a buffer
    debug_failed,     \* flush_buffer's debug_assert saw refs > 2
    debug_assertions, \* the build: debug_assert compiled in or not
    past_end_word,    \* what the memory after a flag array holds
    snapshots         \* history: whether hist records the lists at each call

vars == <<heap, list_head, list_count, buffer_cap, pc, loc, hist, started,
          ub, debug_failed, debug_assertions, past_end_word, snapshots>>

(* --------------------------- BufferMeta ------------------------------- *)
\* an address nothing is allocated at
NoBuffer ==
    [state |-> "free", head |-> 0, next |-> NULL, refs |-> 0, cap |-> 0,
     flags |-> [i \in SlotIdx |-> 0], data |-> [i \in SlotIdx |-> FALSE]]

\* alloc_mem: zeroed flag words; what follows the flag array (the payload
\* area, or the memory after the region) holds whatever it holds
AllocMem(cap, w) ==
    [i \in SlotIdx |-> IF i < cap THEN EMPTY_SLOT ELSE w]

\* BufferMeta::new
BufferMetaNew(h, b, cap, w) ==
    [h EXCEPT ![b] = [state |-> "live", head |-> 0, next |-> NULL, refs |-> 1,
                      cap |-> cap, flags |-> AllocMem(cap, w),
                      data |-> [i \in SlotIdx |-> FALSE]]]

\* the items flush_buffer moves out: slots 0..head-1 that are neither empty
\* nor sentinel, in slot order
RECURSIVE FlushFrom(_, _, _)
FlushFrom(flags, i, data_bound) ==
    IF i >= data_bound THEN <<>>
    ELSE (IF flags[i] # EMPTY_SLOT /\ flags[i] # SENTINEL_SLOT
          THEN <<flags[i]>> ELSE <<>>) \o FlushFrom(flags, i + 1, data_bound)

\* a flush that walks the slots from the cursor down
FlushedDescending(h, b) ==
    LET up == FlushFrom(h[b].flags, 0, h[b].head)
    IN  [i \in 1..Len(up) |-> up[Len(up) + 1 - i]]

\* a flush that starts its walk one slot too late
FlushedSkipsFirst(h, b) == FlushFrom(h[b].flags, 1, h[b].head)

Flushed(h, b) == FlushFrom(h[b].flags, 0, h[b].head)

\* flush_buffer: the cursor goes back to 0, the flags stay
flush_buffer(h, b) == [h EXCEPT ![b].head = 0]

\* dealloc_mem: the region is gone
dealloc_mem(h, b) == [h EXCEPT ![b] = [NoBuffer EXCEPT !.state = "freed"]]

\* BufferMeta::gc
gc(h, b) == dealloc_mem(flush_buffer(h, b), b)

\* BufferMeta::unref: fetch_sub, and gc when the count was 1
unref(h, b) ==
    IF h[b].refs = 1 THEN gc(h, b) ELSE [h EXCEPT ![b].refs = @ - 1]

\* BufferMeta::borrow: fetch_add
borrow(h, b) == [h EXCEPT ![b].refs = @ + 1]

Live(b) == b # NULL /\ heap[b].state = "live"
Destroyed(b) == b # NULL /\ heap[b].state = "freed"

\* the payload of slot i of buffer b is in the data array and was written
PayloadWritten(b, i) == i < heap[b].cap /\ heap[b].data[i]

(* ----------------------------- threads -------------------------------- *)
NoLocals ==
    [op |-> "idle", list |-> "A", other |-> "A", flag |-> 0, head_ptr |-> NULL, slot |-> 0,
     next_ptr |-> NULL, slot_flag |-> 0, new_head |-> NULL, res |-> <<>>,
     buffer_ptr |-> NULL, buffer |-> NULL, other_head |-> NULL,
     other_count |-> 0, other_tail |-> NULL, this_head |-> NULL,
     pre |-> <<>>, word |-> 0, payload_ok |-> TRUE]

PtrFields == {"head_ptr", "next_ptr", "new_head", "buffer_ptr", "buffer",
              "other_head",
              "other_tail", "this_head"}

\* every address some pointer of the program holds
Pointers ==
    {list_head[l] : l \in Lists}
      \cup {heap[b].next : b \in {x \in BufIds : heap[x].state = "live"}}
      \cup {loc[t][f] : t \in Threads, f \in PtrFields}

\* the addresses the allocator may hand out: not live, and named by nothing
FreeAddrs == {b \in BufIds : heap[b].state # "live" /\ b \notin Pointers}
CanAlloc == FreeAddrs # {}
FreshBuf == CHOOSE b \in FreeAddrs : \A c \in FreeAddrs : b <= c

At(t, p) == ~ub /\ pc[t] = p

\* the buffers of list l from its current buffer along next, newest first
RECURSIVE ChainFrom(_, _)
ChainFrom(b, n) ==
    IF b = NULL \/ n = 0 THEN <<>>
    ELSE IF heap[b].state # "live" THEN <<b>>
    ELSE <<b>> \o ChainFrom(heap[b].next, n - 1)

Chain(l) == ChainFrom(list_head[l], MaxBufs)
ChainSet(l) == {Chain(l)[i] : i \in 1..Len(Chain(l))}

\* the items a drain of the chain would move out, buffer by buffer
RECURSIVE ItemsOf(_)
ItemsOf(bs) ==
    IF bs = <<>> THEN <<>> ELSE Flushed(heap, Head(bs)) \o ItemsOf(Tail(bs))

ChainItems(l) == ItemsOf(Chain(l))

\* the lists as they are when an operation is called
Snapshot ==
    [count |-> list_count, head |-> list_head, heap |-> heap,
     chain |-> [l \in Lists |-> Chain(l)],
     items |-> [l \in Lists |-> ChainItems(l)]]

\* a step of thread t to label p with its locals set to r
Goto(t, p, r) == pc' = [pc EXCEPT ![t] = p] /\ loc' = [loc EXCEPT ![t] = r]

\* an access to a deallocated buffer: what follows is undefined
UseAfterFree ==
    /\ ub' = TRUE
    /\ UNCHANGED <<heap, list_head, list_count, buffer_cap, pc, loc, hist,
                   started, debug_failed, debug_assertions, past_end_word,
                   snapshots>>

\* a write outside the region BufferMeta::new allocated: what follows is
\* undefined
OutOfBounds ==
    /\ ub' = TRUE
    /\ UNCHANGED <<heap, list_head, list_count, buffer_cap, pc, loc, hist,
                   started, debug_failed, debug_assertions, past_end_word,
                   snapshots>>

Env == <<buffer_cap, debug_assertions, past_end_word, snapshots>>

\* the operation of thread t returns
Return(t, some, val) ==
    /\ hist' = Append(hist, [op |-> loc[t].op, list |-> loc[t].list,
                             other |-> loc[t].other, flag |-> loc[t].flag,
                             some |-> some, val |-> val, pre |-> loc[t].pre,
                             word |-> loc[t].word,
                             payload_ok |-> loc[t].payload_ok])
    /\ Goto(t, "idle", NoLocals)

\* an operation starts: the caller picks the list and, for a push, the tag
Start(t, op, p, l, o) ==
    /\ At(t, "idle")
    /\ started' = started + 1
    /\ Goto(t, p, [NoLocals EXCEPT !.op = op, !.list = l, !.other = o,
                                   !.flag = FirstTag + started,
                                   !.pre = IF snapshots THEN Snapshot ELSE @])
    /\ UNCHANGED <<heap, list_head, list_count, hist, ub, debug_failed, Env>>

(* ------------------------------ push ---------------------------------- *)
PushStart(t, l) == Start(t, "push", "push_load", l, l)

\* let head_ptr = self.head.load(Relaxed)
PushLoadHead(t) ==
    /\ At(t, "push_load")
    /\ Goto(t, "push_borrow", [loc[t] EXCEPT !.head_ptr = list_head[loc[t].list]])
    /\ UNCHANGED <<heap, list_head, list_count, hist, started, ub, debug_failed, Env>>

\* let page = BufferMeta::borrow(head_ptr)
PushBorrow(t) ==
    /\ At(t, "push_borrow")
    /\ IF Live(loc[t].head_ptr)
       THEN /\ heap' = borrow(heap, loc[t].head_ptr)
            /\ Goto(t, "push_slot", loc[t])
            /\ UNCHANGED <<list_head, list_count, hist, started, ub,
                           debug_failed, Env>>
       ELSE UseAfterFree

\* let slot_pos = page.head.load(Relaxed); if next_pos > self.buffer_cap
PushLoadSlot(t) ==
    /\ At(t, "push_slot")
    /\ IF Live(loc[t].head_ptr)
       THEN /\ LET slot_pos == heap[loc[t].head_ptr].head
                   next_pos == slot_pos + 1
               IN  Goto(t, IF next_pos > buffer_cap[loc[t].list]
                           THEN "push_new" ELSE "push_cas_slot",
                        [loc[t] EXCEPT !.slot = slot_pos])
            /\ UNCHANGED <<heap, list_head, list_count, hist, started, ub,
                           debug_failed, Env>>
       ELSE UseAfterFree

\* a push that forgets to link the new buffer to the old one
PushNewUnlinked(t) ==
    /\ At(t, "push_new")
    /\ CanAlloc
    /\ heap' = BufferMetaNew(heap, FreshBuf, buffer_cap[loc[t].list], past_end_word)
    /\ Goto(t, "push_cas_head", [loc[t] EXCEPT !.new_head = FreshBuf])
    /\ UNCHANGED <<list_head, list_count, hist, started, ub, debug_failed, Env>>

\* let new_head = BufferMeta::new(self.buffer_cap); (*new_head).next.store(head_ptr)
PushNew(t) ==
    /\ At(t, "push_new")
    /\ CanAlloc
    /\ LET b == FreshBuf
           h == BufferMetaNew(heap, b, buffer_cap[loc[t].list], past_end_word)
       IN  /\ heap' = [h EXCEPT ![b].next = loc[t].head_ptr]
           /\ Goto(t, "push_cas_head", [loc[t] EXCEPT !.new_head = b])
    /\ UNCHANGED <<list_head, list_count, hist, started, ub, debug_failed, Env>>

\* if self.head.compare_and_swap(head_ptr, new_head, Relaxed) != head_ptr
PushCasHead(t) ==
    /\ At(t, "push_cas_head")
    /\ IF list_head[loc[t].list] = loc[t].head_ptr
       THEN /\ list_head' = [list_head EXCEPT ![loc[t].list] = loc[t].new_head]
            /\ Goto(t, "push_drop", [loc[t] EXCEPT !.new_head = NULL])
       ELSE /\ list_head' = list_head
            /\ Goto(t, "push_unref_new", loc[t])
    /\ UNCHANGED <<heap, list_count, hist, started, ub, debug_failed, Env>>

\* BufferMeta::unref(new_head)
PushUnrefNew(t) ==
    /\ At(t, "push_unref_new")
    /\ heap' = unref(heap, loc[t].new_head)
    /\ Goto(t, "push_drop", [loc[t] EXCEPT !.new_head = NULL])
    /\ UNCHANGED <<list_head, list_count, hist, started, ub, debug_failed, Env>>

\* backoff.spin(); the end of the loop body drops page
PushDrop(t) ==
    /\ At(t, "push_drop")
    /\ IF Live(loc[t].head_ptr)
       THEN /\ heap' = unref(heap, loc[t].head_ptr)
            /\ Goto(t, "push_load", [loc[t] EXCEPT !.head_ptr = NULL, !.slot = 0])
            /\ UNCHANGED <<list_head, list_count, hist, started, ub,
                           debug_failed, Env>>
       ELSE UseAfterFree

\* if page.head.compare_and_swap(slot_pos, next_pos, Relaxed) == slot_pos
PushCasSlot(t) ==
    /\ At(t, "push_cas_slot")
    /\ IF Live(loc[t].head_ptr)
       THEN /\ IF heap[loc[t].head_ptr].head = loc[t].slot
               THEN /\ heap' = [heap EXCEPT ![loc[t].head_ptr].head = loc[t].slot + 1]
                    /\ Goto(t, "push_write", loc[t])
               ELSE /\ heap' = heap
                    /\ Goto(t, "push_drop", loc[t])
            /\ UNCHANGED <<list_head, list_count, hist, started, ub,
                           debug_failed, Env>>
       ELSE UseAfterFree

\* ptr::write(obj_ptr, data): the payload of the reserved slot is written; for
\* a slot index the buffer was not created with, obj_ptr and slot_ptr are at
\* or past the end of the region
PushWrite(t) ==
    /\ At(t, "push_write")
    /\ IF Live(loc[t].head_ptr)
       THEN IF loc[t].slot < heap[loc[t].head_ptr].cap
            THEN /\ heap' = [heap EXCEPT ![loc[t].head_ptr].data[loc[t].slot] = TRUE]
                 /\ Goto(t, "push_publish", loc[t])
                 /\ UNCHANGED <<list_head, list_count, hist, started, ub,
                                debug_failed, Env>>
            ELSE OutOfBounds
       ELSE UseAfterFree

\* assert_eq!(atomic_cxchg(slot_ptr, EMPTY_SLOT, flag).0, EMPTY_SLOT)
PushPublish(t) ==
    /\ At(t, "push_publish")
    /\ IF Live(loc[t].head_ptr)
       THEN /\ IF heap[loc[t].head_ptr].flags[loc[t].slot] = EMPTY_SLOT
               THEN /\ heap' = [heap EXCEPT
                                  ![loc[t].head_ptr].flags[loc[t].slot] = loc[t].flag]
                    /\ Goto(t, "push_count", loc[t])
               ELSE /\ heap' = heap
                    /\ Goto(t, "push_panic", loc[t])
            /\ UNCHANGED <<list_head, list_count, hist, started, ub,
                           debug_failed, Env>>
       ELSE UseAfterFree

\* the assert_eq! failed: the panic unwinds, page is dropped, push never returns
PushPanic(t) ==
    /\ At(t, "push_panic")
    /\ IF Live(loc[t].head_ptr)
       THEN /\ heap' = unref(heap, loc[t].head_ptr)
            /\ Goto(t, "panicked", NoLocals)
            /\ UNCHANGED <<list_head, list_count, hist, started, ub,
                           debug_failed, Env>>
       ELSE UseAfterFree

\* self.count.fetch_add(1, Relaxed)
PushCount(t) ==
    /\ At(t, "push_count")
    /\ list_count' = [list_count EXCEPT ![loc[t].list] = @ + 1]
    /\ Goto(t, "push_ret", loc[t])
    /\ UNCHANGED <<heap, list_head, hist, started, ub, debug_failed, Env>>

\* break; page is dropped and push returns
PushRet(t) ==
    /\ At(t, "push_ret")
    /\ IF Live(loc[t].head_ptr)
       THEN /\ heap' = unref(heap, loc[t].head_ptr)
            /\ Return(t, TRUE, <<>>)
            /\ UNCHANGED <<list_head, list_count, started, ub, debug_failed, Env>>
       ELSE UseAfterFree

(* --------------------------- drop_out_all ----------------------------- *)
DrainStart(t, l) == Start(t, "drop_out_all", "drain_count", l, l)

\* if self.count.load(Relaxed) == 0 { return None; }
DrainCount(t) ==
    /\ At(t, "drain_count")
    /\ IF list_count[loc[t].list] = 0
       THEN Return(t, FALSE, <<>>)
       ELSE Goto(t, "drain_swap", loc[t]) /\ hist' = hist
    /\ UNCHANGED <<heap, list_head, list_count, started, ub, debug_failed, Env>>

\* let mut buffer_ptr = self.head.swap(BufferMeta::new(self.buffer_cap), Relaxed)
DrainSwap(t) ==
    /\ At(t, "drain_swap")
    /\ CanAlloc
    /\ heap' = BufferMetaNew(heap, FreshBuf, buffer_cap[loc[t].list], past_end_word)
    /\ list_head' = [list_head EXCEPT ![loc[t].list] = FreshBuf]
    /\ Goto(t, "drain_borrow", [loc[t] EXCEPT !.buffer_ptr = list_head[loc[t].list]])
    /\ UNCHANGED <<list_count, hist, started, ub, debug_failed, Env>>

\* 'main: while buffer_ptr != null_mut() { let buffer = BufferMeta::borrow(buffer_ptr)
DrainBorrow(t) ==
    /\ At(t, "drain_borrow")
    /\ IF loc[t].buffer_ptr = NULL
       THEN /\ Goto(t, "drain_sub", loc[t])
            /\ UNCHANGED <<heap, list_head, list_count, hist, started, ub,
                           debug_failed, Env>>
       ELSE IF Live(loc[t].buffer_ptr)
       THEN /\ heap' = borrow(heap, loc[t].buffer_ptr)
            /\ Goto(t, "drain_next", [loc[t] EXCEPT !.buffer = loc[t].buffer_ptr])
            /\ UNCHANGED <<list_head, list_count, hist, started, ub,
                           debug_failed, Env>>
       ELSE UseAfterFree

\* let next_ptr = buffer.next.load(Relaxed)
DrainLoadNext(t) ==
    /\ At(t, "drain_next")
    /\ IF Live(loc[t].buffer)
       THEN /\ Goto(t, "drain_cas_refs",
                    [loc[t] EXCEPT !.next_ptr = heap[loc[t].buffer].next])
            /\ UNCHANGED <<heap, list_head, list_count, hist, started, ub,
                           debug_failed, Env>>
       ELSE UseAfterFree

\* let flag = 1 << word_size
DrainFlag == Pow2(WordSize)
\* flag << (word_size >> 1)
DrainLimit == DrainFlag * Pow2(WordSize \div 2)

\* let ref_num = buffer.refs.compare_and_swap(2, flag, Relaxed), and the
\* branches on ref_num
DrainCasRefs(t) ==
    /\ At(t, "drain_cas_refs")
    /\ IF Live(loc[t].buffer)
       THEN /\ LET ref_num == heap[loc[t].buffer].refs
               IN  /\ heap' = IF ref_num = 2
                              THEN [heap EXCEPT ![loc[t].buffer].refs = DrainFlag]
                              ELSE heap
                   /\ Goto(t, IF ref_num >= DrainLimit THEN "drain_break"
                              ELSE IF ref_num <= 1 THEN "drain_break"
                              ELSE IF ref_num = 2 THEN "drain_flush"
                              ELSE "drain_cas_refs", loc[t])
            /\ UNCHANGED <<list_head, list_count, hist, started, ub,
                           debug_failed, Env>>
       ELSE UseAfterFree

\* BufferMeta::flush_buffer(&*buffer, Some(&mut res)), with its
\* debug_assert!(buffer.refs.load(Relaxed) <= 2)
DrainFlush(t) ==
    /\ At(t, "drain_flush")
    /\ IF Live(loc[t].buffer)
       THEN /\ debug_failed' = (debug_failed \/ heap[loc[t].buffer].refs > 2)
            /\ IF debug_assertions /\ heap[loc[t].buffer].refs > 2
               THEN /\ heap' = heap
                    /\ Goto(t, "drain_panic", loc[t])
               ELSE /\ heap' = flush_buffer(heap, loc[t].buffer)
                    /\ Goto(t, "drain_unref",
                            [loc[t] EXCEPT !.res = @ \o Flushed(heap, loc[t].buffer)])
            /\ UNCHANGED <<list_head, list_count, hist, started, ub, Env>>
       ELSE UseAfterFree

\* the panic unwinds: buffer is dropped, the operation never returns
DrainPanic(t) ==
    /\ At(t, "drain_panic")
    /\ IF Live(loc[t].buffer)
       THEN /\ heap' = unref(heap, loc[t].buffer)
            /\ Goto(t, "panicked", NoLocals)
            /\ UNCHANGED <<list_head, list_count, hist, started, ub,
                           debug_failed, Env>>
       ELSE UseAfterFree

\* BufferMeta::unref(buffer_ptr); buffer_ptr = next_ptr; break
DrainUnref(t) ==
    /\ At(t, "drain_unref")
    /\ IF Live(loc[t].buffer_ptr)
       THEN /\ heap' = unref(heap, loc[t].buffer_ptr)
            /\ Goto(t, "drain_drop", [loc[t] EXCEPT !.buffer_ptr = loc[t].next_ptr,
                                                    !.next_ptr = NULL])
            /\ UNCHANGED <<list_head, list_count, hist, started, ub,
                           debug_failed, Env>>
       ELSE UseAfterFree

\* the end of the outer loop body drops buffer
DrainDrop(t) ==
    /\ At(t, "drain_drop")
    /\ IF Live(loc[t].buffer)
       THEN /\ heap' = unref(heap, loc[t].buffer)
            /\ Goto(t, "drain_borrow", [loc[t] EXCEPT !.buffer = NULL])
            /\ UNCHANGED <<list_head, list_count, hist, started, ub,
                           debug_failed, Env>>
       ELSE UseAfterFree

\* break 'main: buffer is dropped on the way out
DrainBreak(t) ==
    /\ At(t, "drain_break")
    /\ IF Live(loc[t].buffer)
       THEN /\ heap' = unref(heap, loc[t].buffer)
            /\ Goto(t, "drain_sub", [loc[t] EXCEPT !.buffer = NULL,
                                                   !.buffer_ptr = NULL,
                                                   !.next_ptr = NULL])
            /\ UNCHANGED <<list_head, list_count, hist, started, ub,
                           debug_failed, Env>>
       ELSE UseAfterFree

\* self.count.fetch_sub(res.len(), Relaxed); return Some(res)
DrainSub(t) ==
    /\ At(t, "drain_sub")
    /\ list_count' = [list_count EXCEPT ![loc[t].list] = @ - Len(loc[t].res)]
    /\ Return(t, TRUE, loc[t].res)
    /\ UNCHANGED <<heap, list_head, started, ub, debug_failed, Env>>

(* ------------------------------ List::new ------------------------------ *)
\* List::new for both lists: one empty buffer each, count 0
InitLists(capA, capB, w) ==
    /\ heap = [b \in BufIds |->
                 IF b = 1 THEN BufferMetaNew([x \in BufIds |-> NoBuffer], 1, capA, w)[1]
                 ELSE IF b = 2 THEN BufferMetaNew([x \in BufIds |-> NoBuffer], 2, capB, w)[2]
                 ELSE NoBuffer]
    /\ list_head = [l \in Lists |-> IF l = "A" THEN 1 ELSE 2]
    /\ list_count = [l \in Lists |-> 0]
    /\ buffer_cap = [l \in Lists |-> IF l = "A" THEN capA ELSE capB]
    /\ past_end_word = w
    /\ pc = [t \in Threads |-> "idle"]
    /\ loc = [t \in Threads |-> NoLocals]
    /\ hist = <<>>
    /\ started = 0
    /\ ub = FALSE
    /\ debug_failed = FALSE

PastEndWords == {EMPTY_SLOT, SENTINEL_SLOT, GarbageWord}

(* ----------------- concurrent pushes, then one drain ------------------- *)
AllIdle == \A t \in Threads : pc[t] = "idle"

InitPushDrain ==
    /\ \E c \in 1..MaxCap : \E w \in PastEndWords : InitLists(c, c, w)
    /\ debug_assertions \in BOOLEAN
    /\ snapshots = FALSE

PushStep(t) ==
    \/ PushLoadHead(t) \/ PushBorrow(t) \/ PushLoadSlot(t) \/ PushNew(t)
    \/ PushCasHead(t) \/ PushUnrefNew(t) \/ PushDrop(t) \/ PushCasSlot(t)
    \/ PushWrite(t) \/ PushPublish(t) \/ PushCount(t) \/ PushRet(t)

DrainStep(t) ==
    \/ DrainCount(t) \/ DrainSwap(t) \/ DrainBorrow(t) \/ DrainLoadNext(t)
    \/ DrainCasRefs(t) \/ DrainFlush(t) \/ DrainPanic(t) \/ DrainUnref(t)
    \/ DrainDrop(t) \/ DrainSub(t)

NoDrainYet ==
    /\ \A i \in 1..Len(hist) : hist[i].op = "push"
    /\ \A t \in Threads : loc[t].op # "drop_out_all" /\ pc[t] # "panicked"

Budget == started < MaxOps

NextPushDrain ==
    \/ \E t \in Threads : Budget /\ NoDrainYet /\ PushStart(t, "A")
    \/ \E t \in Threads : PushStep(t)
    \/ Budget /\ AllIdle /\ NoDrainYet /\ DrainStart(1, "A")
    \/ DrainStep(1)

SpecPushDrain == InitPushDrain /\ [][NextPushDrain]_vars

(* -------------------------------- pop --------------------------------- *)
PopStart(t, l) == Start(t, "pop", "pop_count", l, l)

\* if self.count.load(Relaxed) == 0 { return None; }
PopCount(t) ==
    /\ At(t, "pop_count")
    /\ IF list_count[loc[t].list] = 0
       THEN Return(t, FALSE, <<>>)
       ELSE Goto(t, "pop_load", loc[t]) /\ hist' = hist
    /\ UNCHANGED <<heap, list_head, list_count, started, ub, debug_failed, Env>>

\* let head_ptr = self.head.load(Relaxed)
PopLoadHead(t) ==
    /\ At(t, "pop_load")
    /\ Goto(t, "pop_borrow", [loc[t] EXCEPT !.head_ptr = list_head[loc[t].list]])
    /\ UNCHANGED <<heap, list_head, list_count, hist, started, ub, debug_failed, Env>>

\* let page = BufferMeta::borrow(head_ptr)
PopBorrow(t) ==
    /\ At(t, "pop_borrow")
    /\ IF Live(loc[t].head_ptr)
       THEN /\ heap' = borrow(heap, loc[t].head_ptr)
            /\ Goto(t, "pop_slot", loc[t])
            /\ UNCHANGED <<list_head, list_count, hist, started, ub,
                           debug_failed, Env>>
       ELSE UseAfterFree

\* let slot = page.head.load(Relaxed)
PopLoadSlot(t) ==
    /\ At(t, "pop_slot")
    /\ IF Live(loc[t].head_ptr)
       THEN /\ Goto(t, "pop_next", [loc[t] EXCEPT !.slot = heap[loc[t].head_ptr].head])
            /\ UNCHANGED <<heap, list_head, list_count, hist, started, ub,
                           debug_failed, Env>>
       ELSE UseAfterFree

\* let next_buffer_ptr = page.next.load(Relaxed), and the branches on slot
\* and next_buffer_ptr
PopLoadNext(t) ==
    /\ At(t, "pop_next")
    /\ IF Live(loc[t].head_ptr)
       THEN /\ LET next_buffer_ptr == heap[loc[t].head_ptr].next
               IN  Goto(t, IF loc[t].slot = 0 /\ next_buffer_ptr = NULL THEN "pop_ret"
                           ELSE IF loc[t].slot = 0 THEN "pop_cas_head"
                           ELSE "pop_load_flag",
                        [loc[t] EXCEPT !.next_ptr = next_buffer_ptr])
            /\ UNCHANGED <<heap, list_head, list_count, hist, started, ub,
                           debug_failed, Env>>
       ELSE UseAfterFree

\* if self.head.compare_and_swap(head_ptr, next_buffer_ptr, Relaxed) == head_ptr
PopCasHead(t) ==
    /\ At(t, "pop_cas_head")
    /\ IF list_head[loc[t].list] = loc[t].head_ptr
       THEN /\ list_head' = [list_head EXCEPT ![loc[t].list] = loc[t].next_ptr]
            /\ Goto(t, "pop_unref_head", loc[t])
       ELSE /\ list_head' = list_head
            /\ Goto(t, "pop_drop", loc[t])
    /\ UNCHANGED <<heap, list_count, hist, started, ub, debug_failed, Env>>

\* BufferMeta::unref(head_ptr); continue
PopUnrefHead(t) ==
    /\ At(t, "pop_unref_head")
    /\ IF Live(loc[t].head_ptr)
       THEN /\ heap' = unref(heap, loc[t].head_ptr)
            /\ Goto(t, "pop_drop", loc[t])
            /\ UNCHANGED <<list_head, list_count, hist, started, ub,
                           debug_failed, Env>>
       ELSE UseAfterFree

\* slot_ptr = (page.lower_bound + slot * size_of::<usize>()): the index of
\* the flag word pop looks at
PopSlotIndex(slot) == slot

\* let slot_flag = intrinsics::atomic_load_relaxed(slot_ptr); if slot_flag != 0
PopLoadFlag(t) ==
    /\ At(t, "pop_load_flag")
    /\ IF Live(loc[t].head_ptr)
       THEN /\ LET slot_flag == heap[loc[t].head_ptr].flags[PopSlotIndex(loc[t].slot)]
               IN  Goto(t, IF slot_flag # 0 THEN "pop_cas_flag" ELSE "pop_drop",
                        [loc[t] EXCEPT !.slot_flag = slot_flag])
            /\ UNCHANGED <<heap, list_head, list_count, hist, started, ub,
                           debug_failed, Env>>
       ELSE UseAfterFree

\* && intrinsics::atomic_cxchg_relaxed(slot_ptr, slot_flag, EMPTY_SLOT).1
\* res = Some((slot_flag, ..)), and for a tag other than the sentinel the
\* payload at obj_ptr is read (when T has a size)
PopCasFlag(t) ==
    /\ At(t, "pop_cas_flag")
    /\ IF Live(loc[t].head_ptr)
       THEN /\ IF heap[loc[t].head_ptr].flags[PopSlotIndex(loc[t].slot)] = loc[t].slot_flag
               THEN /\ heap' = [heap EXCEPT
                         ![loc[t].head_ptr].flags[PopSlotIndex(loc[t].slot)] = EMPTY_SLOT]
                    /\ Goto(t, "pop_cas_slot",
                            [loc[t] EXCEPT
                               !.res = <<loc[t].slot_flag>>,
                               !.payload_ok =
                                  IF loc[t].slot_flag = SENTINEL_SLOT THEN @
                                  ELSE PayloadWritten(loc[t].head_ptr,
                                                      PopSlotIndex(loc[t].slot))])
               ELSE /\ heap' = heap
                    /\ Goto(t, "pop_drop", loc[t])
            /\ UNCHANGED <<list_head, list_count, hist, started, ub,
                           debug_failed, Env>>
       ELSE UseAfterFree

\* if page.head.compare_and_swap(slot, new_slot, Relaxed) != slot {..}
\* else if slot_flag != SENTINEL_SLOT { return res; }
PopCasSlot(t) ==
    /\ At(t, "pop_cas_slot")
    /\ IF Live(loc[t].head_ptr)
       THEN /\ IF heap[loc[t].head_ptr].head = loc[t].slot
               THEN /\ heap' = [heap EXCEPT ![loc[t].head_ptr].head = loc[t].slot - 1]
                    /\ IF loc[t].slot_flag # SENTINEL_SLOT
                       THEN Goto(t, "pop_ret", loc[t])
                       ELSE Goto(t, "pop_drop", loc[t])
               ELSE /\ heap' = heap
                    /\ Goto(t, "pop_sentinel", loc[t])
            /\ UNCHANGED <<list_head, list_count, hist, started, ub,
                           debug_failed, Env>>
       ELSE UseAfterFree

\* intrinsics::atomic_store_relaxed(slot_ptr, SENTINEL_SLOT)
PopSentinel(t) ==
    /\ At(t, "pop_sentinel")
    /\ IF Live(loc[t].head_ptr)
       THEN /\ heap' = [heap EXCEPT
                 ![loc[t].head_ptr].flags[PopSlotIndex(loc[t].slot)] = SENTINEL_SLOT]
            /\ Goto(t, "pop_drop", loc[t])
            /\ UNCHANGED <<list_head, list_count, hist, started, ub,
                           debug_failed, Env>>
       ELSE UseAfterFree

\* backoff.spin() or continue: page and res are dropped, the loop goes on
PopDrop(t) ==
    /\ At(t, "pop_drop")
    /\ IF Live(loc[t].head_ptr)
       THEN /\ heap' = unref(heap, loc[t].head_ptr)
            /\ Goto(t, "pop_load", [loc[t] EXCEPT !.head_ptr = NULL, !.slot = 0,
                                      !.next_ptr = NULL, !.slot_flag = 0,
                                      !.res = <<>>])
            /\ UNCHANGED <<list_head, list_count, hist, started, ub,
                           debug_failed, Env>>
       ELSE UseAfterFree

\* return None / return res: page is dropped
PopRet(t) ==
    /\ At(t, "pop_ret")
    /\ IF Live(loc[t].head_ptr)
       THEN /\ heap' = unref(heap, loc[t].head_ptr)
            /\ Return(t, loc[t].res # <<>>, loc[t].res)
            /\ UNCHANGED <<list_head, list_count, started, ub, debug_failed, Env>>
       ELSE UseAfterFree

PopStep(t) ==
    \/ PopCount(t) \/ PopLoadHead(t) \/ PopBorrow(t) \/ PopLoadSlot(t)
    \/ PopLoadNext(t) \/ PopLoadFlag(t) \/ PopCasFlag(t) \/ PopCasSlot(t)
    \/ PopDrop(t) \/ PopRet(t)

(* ---------------------------- prepend_with ---------------------------- *)
PrependStart(t, l, o) == Start(t, "prepend_with", "pp_count", l, o)

\* if other.count.load(Relaxed) == 0 { return; }
PrependCount(t) ==
    /\ At(t, "pp_count")
    /\ IF list_count[loc[t].other] = 0
       THEN Return(t, FALSE, <<>>)
       ELSE Goto(t, "pp_swap", loc[t]) /\ hist' = hist
    /\ UNCHANGED <<heap, list_head, list_count, started, ub, debug_failed, Env>>

\* the capacity prepend_with gives the buffer it leaves in other
PrependNewCap(t) == buffer_cap[loc[t].list]

\* let other_head = other.head.swap(BufferMeta::new(self.buffer_cap), Relaxed)
PrependSwap(t) ==
    /\ At(t, "pp_swap")
    /\ CanAlloc
    /\ heap' = BufferMetaNew(heap, FreshBuf, PrependNewCap(t), past_end_word)
    /\ list_head' = [list_head EXCEPT ![loc[t].other] = FreshBuf]
    /\ Goto(t, "pp_count_swap", [loc[t] EXCEPT !.other_head = list_head[loc[t].other]])
    /\ UNCHANGED <<list_count, hist, started, ub, debug_failed, Env>>

\* let other_count = other.count.swap(0, Relaxed)
PrependCountSwap(t) ==
    /\ At(t, "pp_count_swap")
    /\ list_count' = [list_count EXCEPT ![loc[t].other] = 0]
    /\ Goto(t, "pp_borrow", [loc[t] EXCEPT !.other_count = list_count[loc[t].other]])
    /\ UNCHANGED <<heap, list_head, hist, started, ub, debug_failed, Env>>

\* let mut other_tail = BufferMeta::borrow(other_head)
PrependBorrow(t) ==
    /\ At(t, "pp_borrow")
    /\ IF Live(loc[t].other_head)
       THEN /\ heap' = borrow(heap, loc[t].other_head)
            /\ Goto(t, "pp_wait", [loc[t] EXCEPT !.other_tail = loc[t].other_head])
            /\ UNCHANGED <<list_head, list_count, hist, started, ub,
                           debug_failed, Env>>
       ELSE UseAfterFree

\* while other_tail.refs.load(Relaxed) > 2 {}
PrependWait(t) ==
    /\ At(t, "pp_wait")
    /\ IF Live(loc[t].other_tail)
       THEN /\ Goto(t, IF heap[loc[t].other_tail].refs > 2 THEN "pp_wait" ELSE "pp_next",
                    loc[t])
            /\ UNCHANGED <<heap, list_head, list_count, hist, started, ub,
                           debug_failed, Env>>
       ELSE UseAfterFree

\* let next_ptr = other_tail.next.load(Relaxed); if next_ptr == null_mut() { break; }
PrependLoadNext(t) ==
    /\ At(t, "pp_next")
    /\ IF Live(loc[t].other_tail)
       THEN /\ LET next_ptr == heap[loc[t].other_tail].next
               IN  Goto(t, IF next_ptr = NULL THEN "pp_load_head" ELSE "pp_borrow_next",
                        [loc[t] EXCEPT !.next_ptr = next_ptr])
            /\ UNCHANGED <<heap, list_head, list_count, hist, started, ub,
                           debug_failed, Env>>
       ELSE UseAfterFree

\* other_tail = BufferMeta::borrow(next_ptr): the borrow
PrependBorrowNext(t) ==
    /\ At(t, "pp_borrow_next")
    /\ IF Live(loc[t].next_ptr)
       THEN /\ heap' = borrow(heap, loc[t].next_ptr)
            /\ Goto(t, "pp_drop_tail", loc[t])
            /\ UNCHANGED <<list_head, list_count, hist, started, ub,
                           debug_failed, Env>>
       ELSE UseAfterFree

\* other_tail = BufferMeta::borrow(next_ptr): the assignment drops the old
\* other_tail
PrependDropTail(t) ==
    /\ At(t, "pp_drop_tail")
    /\ IF Live(loc[t].other_tail)
       THEN /\ heap' = unref(heap, loc[t].other_tail)
            /\ Goto(t, "pp_wait", [loc[t] EXCEPT !.other_tail = loc[t].next_ptr,
                                                 !.next_ptr = NULL])
            /\ UNCHANGED <<list_head, list_count, hist, started, ub,
                           debug_failed, Env>>
       ELSE UseAfterFree

\* let this_head = self.head.load(Relaxed)
PrependLoadHead(t) ==
    /\ At(t, "pp_load_head")
    /\ Goto(t, "pp_cas", [loc[t] EXCEPT !.this_head = list_head[loc[t].list]])
    /\ UNCHANGED <<heap, list_head, list_count, hist, started, ub, debug_failed, Env>>

\* if self.head.compare_and_swap(this_head, other_head, Relaxed) != this_head { continue; }
PrependCas(t) ==
    /\ At(t, "pp_cas")
    /\ IF list_head[loc[t].list] = loc[t].this_head
       THEN /\ list_head' = [list_head EXCEPT ![loc[t].list] = loc[t].other_head]
            /\ Goto(t, "pp_link", loc[t])
       ELSE /\ list_head' = list_head
            /\ Goto(t, "pp_load_head", [loc[t] EXCEPT !.this_head = NULL])
    /\ UNCHANGED <<heap, list_count, hist, started, ub, debug_failed, Env>>

\* a splice that never links the old chain behind the source's tail
PrependLinkOmitted(t) ==
    /\ At(t, "pp_link")
    /\ Goto(t, "pp_add", [loc[t] EXCEPT !.this_head = NULL, !.other_head = NULL])
    /\ UNCHANGED <<heap, list_head, list_count, hist, started, ub,
                   debug_failed, Env>>

\* other_tail.next.store(this_head, Relaxed); break
PrependLink(t) ==
    /\ At(t, "pp_link")
    /\ IF Live(loc[t].other_tail)
       THEN /\ heap' = [heap EXCEPT ![loc[t].other_tail].next = loc[t].this_head]
            /\ Goto(t, "pp_add", [loc[t] EXCEPT !.this_head = NULL, !.other_head = NULL])
            /\ UNCHANGED <<list_head, list_count, hist, started, ub,
                           debug_failed, Env>>
       ELSE UseAfterFree

\* self.count.fetch_add(other_count, Relaxed)
PrependAdd(t) ==
    /\ At(t, "pp_add")
    /\ list_count' = [list_count EXCEPT ![loc[t].list] = @ + loc[t].other_count]
    /\ Goto(t, "pp_ret", loc[t])
    /\ UNCHANGED <<heap, list_head, hist, started, ub, debug_failed, Env>>

\* other_tail is dropped and prepend_with returns
PrependRet(t) ==
    /\ At(t, "pp_ret")
    /\ IF Live(loc[t].other_tail)
       THEN /\ heap' = unref(heap, loc[t].other_tail)
            /\ Return(t, TRUE, <<>>)
            /\ UNCHANGED <<list_head, list_count, started, ub, debug_failed, Env>>
       ELSE UseAfterFree

PrependStep(t) ==
    \/ PrependCount(t) \/ PrependSwap(t) \/ PrependCountSwap(t)
    \/ PrependBorrow(t) \/ PrependWait(t) \/ PrependLoadNext(t)
    \/ PrependBorrowNext(t) \/ PrependDropTail(t) \/ PrependLoadHead(t)
    \/ PrependCas(t) \/ PrependLink(t) \/ PrependAdd(t) \/ PrependRet(t)

(* --------------------------- exclusive_push --------------------------- *)
ExclusivePushStart(t, l) == Start(t, "exclusive_push", "xp_load", l, l)

\* let head_ptr = self.head.load(Relaxed)
ExclusiveLoadHead(t) ==
    /\ At(t, "xp_load")
    /\ Goto(t, "xp_borrow", [loc[t] EXCEPT !.head_ptr = list_head[loc[t].list]])
    /\ UNCHANGED <<heap, list_head, list_count, hist, started, ub, debug_failed, Env>>

\* let page = BufferMeta::borrow(head_ptr)
ExclusiveBorrow(t) ==
    /\ At(t, "xp_borrow")
    /\ IF Live(loc[t].head_ptr)
       THEN /\ heap' = borrow(heap, loc[t].head_ptr)
            /\ Goto(t, "xp_slot", loc[t])
            /\ UNCHANGED <<list_head, list_count, hist, started, ub,
                           debug_failed, Env>>
       ELSE UseAfterFree

\* let slot = page.head.load(Relaxed); if next_slot > self.buffer_cap
ExclusiveLoadSlot(t) ==
    /\ At(t, "xp_slot")
    /\ IF Live(loc[t].head_ptr)
       THEN /\ LET slot == heap[loc[t].head_ptr].head
                   next_slot == slot + 1
               IN  Goto(t, IF next_slot > buffer_cap[loc[t].list]
                           THEN "xp_new" ELSE "xp_store_slot",
                        [loc[t] EXCEPT !.slot = slot])
            /\ UNCHANGED <<heap, list_head, list_count, hist, started, ub,
                           debug_failed, Env>>
       ELSE UseAfterFree

\* let new_head = BufferMeta::new(self.buffer_cap); (*new_head).next.store(head_ptr)
ExclusiveNew(t) ==
    /\ At(t, "xp_new")
    /\ CanAlloc
    /\ LET b == FreshBuf
           h == BufferMetaNew(heap, b, buffer_cap[loc[t].list], past_end_word)
       IN  /\ heap' = [h EXCEPT ![b].next = loc[t].head_ptr]
           /\ Goto(t, "xp_store_head", [loc[t] EXCEPT !.new_head = b])
    /\ UNCHANGED <<list_head, list_count, hist, started, ub, debug_failed, Env>>

\* self.head.store(new_head, Relaxed)
ExclusiveStoreHead(t) ==
    /\ At(t, "xp_store_head")
    /\ list_head' = [list_head EXCEPT ![loc[t].list] = loc[t].new_head]
    /\ Goto(t, "xp_cas_head", loc[t])
    /\ UNCHANGED <<heap, list_count, hist, started, ub, debug_failed, Env>>

\* if self.head.compare_and_swap(head_ptr, new_head, Relaxed) != head_ptr
ExclusiveCasHead(t) ==
    /\ At(t, "xp_cas_head")
    /\ IF list_head[loc[t].list] = loc[t].head_ptr
       THEN /\ list_head' = [list_head EXCEPT ![loc[t].list] = loc[t].new_head]
            /\ Goto(t, "xp_drop", [loc[t] EXCEPT !.new_head = NULL])
       ELSE /\ list_head' = list_head
            /\ Goto(t, "xp_unref_new", loc[t])
    /\ UNCHANGED <<heap, list_count, hist, started, ub, debug_failed, Env>>

\* BufferMeta::unref(new_head)
ExclusiveUnrefNew(t) ==
    /\ At(t, "xp_unref_new")
    /\ IF Live(loc[t].new_head)
       THEN /\ heap' = unref(heap, loc[t].new_head)
            /\ Goto(t, "xp_drop", [loc[t] EXCEPT !.new_head = NULL])
            /\ UNCHANGED <<list_head, list_count, hist, started, ub,
                           debug_failed, Env>>
       ELSE UseAfterFree

\* backoff.spin(); the end of the loop body drops page
ExclusiveDrop(t) ==
    /\ At(t, "xp_drop")
    /\ IF Live(loc[t].head_ptr)
       THEN /\ heap' = unref(heap, loc[t].head_ptr)
            /\ Goto(t, "xp_load", [loc[t] EXCEPT !.head_ptr = NULL, !.slot = 0])
            /\ UNCHANGED <<list_head, list_count, hist, started, ub,
                           debug_failed, Env>>
       ELSE UseAfterFree

\* page.head.store(next_slot, Relaxed)
ExclusiveStoreSlot(t) ==
    /\ At(t, "xp_store_slot")
    /\ IF Live(loc[t].head_ptr)
       THEN /\ heap' = [heap EXCEPT ![loc[t].head_ptr].head = loc[t].slot + 1]
            /\ Goto(t, "xp_write", loc[t])
            /\ UNCHANGED <<list_head, list_count, hist, started, ub,
                           debug_failed, Env>>
       ELSE UseAfterFree

\* ptr::write(obj_ptr, data)
ExclusiveWrite(t) ==
    /\ At(t, "xp_write")
    /\ IF Live(loc[t].head_ptr)
       THEN /\ heap' = [heap EXCEPT ![loc[t].head_ptr].data[loc[t].slot] = TRUE]
            /\ Goto(t, "xp_publish", loc[t])
            /\ UNCHANGED <<list_head, list_count, hist, started, ub,
                           debug_failed, Env>>
       ELSE UseAfterFree

\* intrinsics::atomic_store_relaxed(slot_ptr, flag)
ExclusivePublish(t) ==
    /\ At(t, "xp_publish")
    /\ IF Live(loc[t].head_ptr)
       THEN /\ heap' = [heap EXCEPT ![loc[t].head_ptr].flags[loc[t].slot] = loc[t].flag]
            /\ Goto(t, "xp_count", loc[t])
            /\ UNCHANGED <<list_head, list_count, hist, started, ub,
                           debug_failed, Env>>
       ELSE UseAfterFree

\* self.count.fetch_add(1, Relaxed)
ExclusiveCount(t) ==
    /\ At(t, "xp_count")
    /\ list_count' = [list_count EXCEPT ![loc[t].list] = @ + 1]
    /\ Goto(t, "xp_ret", loc[t])
    /\ UNCHANGED <<heap, list_head, hist, started, ub, debug_failed, Env>>

\* break; page is dropped and exclusive_push returns
ExclusiveRet(t) ==
    /\ At(t, "xp_ret")
    /\ IF Live(loc[t].head_ptr)
       THEN /\ heap' = unref(heap, loc[t].head_ptr)
            /\ Return(t, TRUE, <<>>)
            /\ UNCHANGED <<list_head, list_count, started, ub, debug_failed, Env>>
       ELSE UseAfterFree

ExclusiveStep(t) ==
    \/ ExclusiveLoadHead(t) \/ ExclusiveBorrow(t) \/ ExclusiveLoadSlot(t)
    \/ ExclusiveNew(t) \/ ExclusiveStoreHead(t) \/ ExclusiveCasHead(t)
    \/ ExclusiveUnrefNew(t) \/ ExclusiveDrop(t) \/ ExclusiveStoreSlot(t)
    \/ ExclusiveWrite(t) \/ ExclusivePublish(t) \/ ExclusiveCount(t)
    \/ ExclusiveRet(t)

(* --------------------------- specifications --------------------------- *)
InitEnv ==
    /\ \E c \in 1..MaxCap : \E w \in PastEndWords : InitLists(c, c, w)
    /\ debug_assertions \in BOOLEAN
    /\ snapshots = TRUE

\* one thread: pushes on both lists, pops and drains of A, A.prepend_with(B)
NextSeq ==
    \/ \E l \in Lists : Budget /\ PushStart(1, l)
    \/ \E l \in Lists : Budget /\ PopStart(1, l)
    \/ \E l \in Lists : Budget /\ DrainStart(1, l)
    \/ \E l \in Lists : \E o \in Lists \ {l} : Budget /\ PrependStart(1, l, o)
    \/ PushLoadHead(1) \/ PushBorrow(1) \/ PushLoadSlot(1) \/ PushNew(1)
    \/ PushCasHead(1) \/ PushDrop(1) \/ PushCasSlot(1) \/ PushWrite(1)
    \/ PushPublish(1)
    \/ PushPanic(1) \/ PushCount(1) \/ PushRet(1)
    \/ PopStep(1) \/ PopCasHead(1) \/ PopUnrefHead(1)
    \/ DrainStep(1)
    \/ PrependStep(1)

SpecSeq == InitEnv /\ [][NextSeq]_vars

(* ------------- one thread: pushes on A, then pops of A ---------------- *)
NumPush == Cardinality({i \in 1..Len(hist) : hist[i].op = "push"})
NoPopYet == loc[1].op # "pop" /\ \A i \in 1..Len(hist) : hist[i].op = "push"

NextLifo ==
    \/ NoPopYet /\ started < buffer_cap["A"] + 1 /\ PushStart(1, "A")
    \/ NumPush >= 1 /\ started < 2 * NumPush + 1 /\ PopStart(1, "A")
    \/ PushLoadHead(1) \/ PushBorrow(1) \/ PushLoadSlot(1) \/ PushNew(1)
    \/ PushCasHead(1) \/ PushDrop(1) \/ PushCasSlot(1) \/ PushWrite(1)
    \/ PushPublish(1)
    \/ PushCount(1) \/ PushRet(1)
    \/ PopStep(1) \/ PopCasHead(1) \/ PopUnrefHead(1)

InitLifo ==
    /\ \E c \in 1..MaxCap : \E w \in PastEndWords : InitLists(c, c, w)
    /\ debug_assertions \in BOOLEAN
    /\ snapshots = FALSE

\* the only thread is always scheduled
SpecLifo == InitLifo /\ [][NextLifo]_vars /\ WF_vars(NextLifo)

(* ----------------- one thread: exclusive_push on A -------------------- *)
NextExclusive ==
    \/ Budget /\ ExclusivePushStart(1, "A")
    \/ ExclusiveStep(1)

SpecExclusive == InitLifo /\ [][NextExclusive]_vars

(* ------------- two threads: pushes and pops on the list A ------------- *)
NextConc ==
    \/ \E t \in Threads : Budget /\ PushStart(t, "A")
    \/ \E t \in Threads : Budget /\ PopStart(t, "A")
    \/ \E t \in Threads : PushStep(t) \/ PushPanic(t)
    \/ \E t \in Threads : PopStep(t) \/ PopCasHead(t) \/ PopUnrefHead(t)
                            \/ PopSentinel(t)

SpecConc == InitLifo /\ [][NextConc]_vars

(* ------------------------------ history ------------------------------- *)
Range(q) == {q[i] : i \in 1..Len(q)}

\* the tags of the pushes on l that returned among the first n operations
PushedBefore(l, n) ==
    {hist[i].flag : i \in {j \in 1..n : hist[j].op = "push" /\ hist[j].list = l}}

LastOp == hist[Len(hist)]

TagOf(i) == hist[i].flag

\* k pushes returned and then k + 1 pops, which returned pk, .., p1 and empty
LifoDone ==
    /\ pc[1] = "idle"
    /\ NumPush >= 1
    /\ Len(hist) = 2 * NumPush + 1
    /\ \A j \in 1..NumPush :
          /\ hist[NumPush + j].op = "pop"
          /\ hist[NumPush + j].some
          /\ hist[NumPush + j].val = <<TagOf(NumPush - j + 1)>>
    /\ ~hist[2 * NumPush + 1].some

\* C3: after one thread pushed p1..pk (k within one buffer, or k one more than
\* the capacity), k pops return pk, .., p1 in that order and the next pop
\* returns empty
C3_SequentialLifo == <>LifoDone

\* C4: none of the capacity + 1 pushes on the empty list fails; after them
\* count is capacity + 1 and the chain is two buffers: the current one holds
\* the last item, its next is the old full buffer, which ends the chain, and
\* every item is in it
C4_Overflow ==
    /\ NoPopYet => (pc[1] # "push_panic" /\ ~ub)
    /\ (pc[1] = "idle" /\ Len(hist) = buffer_cap["A"] + 1 /\ NumPush = Len(hist)) =>
           /\ list_count["A"] = buffer_cap["A"] + 1
           /\ Len(Chain("A")) = 2
           /\ LET new == Chain("A")[1]
                  old == Chain("A")[2]
              IN  /\ heap[new].state = "live" /\ heap[old].state = "live"
                  /\ heap[new].head = 1
                  /\ heap[new].flags[0] = TagOf(buffer_cap["A"] + 1)
                  /\ heap[new].next = old
                  /\ heap[old].next = NULL
                  /\ heap[old].head = buffer_cap["A"]
                  /\ \A i \in 1..buffer_cap["A"] : heap[old].flags[i - 1] = TagOf(i)
           /\ Range(ChainItems("A")) = {TagOf(i) : i \in 1..(buffer_cap["A"] + 1)}
           /\ Len(ChainItems("A")) = buffer_cap["A"] + 1

\* capacity + 1 pushes on a list of capacity MaxCap have returned
C4_Witness ==
    /\ pc[1] = "idle"
    /\ buffer_cap["A"] = MaxCap
    /\ Len(hist) = MaxCap + 1
    /\ NumPush = Len(hist)
    /\ Len(Chain("A")) = 2

(* -------- one thread, every operation but exclusive_push (SpecSeq) ----- *)
\* the items of each list by the calls that returned: pushed, and not taken
\* out by a pop that returned a pushed tag, by a drain or by a splice
RECURSIVE OccAfter(_)
OccAfter(n) ==
    IF n = 0 THEN [l \in Lists |-> 0]
    ELSE LET e == hist[n]
             prev == OccAfter(n - 1)
         IN  IF e.op = "push" THEN [prev EXCEPT ![e.list] = @ + 1]
             ELSE IF e.op = "pop" /\ e.some /\ e.val[1] >= FirstTag
                  THEN [prev EXCEPT ![e.list] = @ - 1]
             ELSE IF e.op = "drop_out_all" /\ e.some
                  THEN [prev EXCEPT ![e.list] = @ - Len(e.val)]
             ELSE IF e.op = "prepend_with" /\ e.some
                  THEN [prev EXCEPT ![e.list] = @ + prev[e.other], ![e.other] = 0]
             ELSE prev

\* the lists are as the snapshot pre shows them
SameAs(pre) ==
    /\ heap = pre.heap
    /\ list_head = pre.head
    /\ list_count = pre.count

\* C5: once drop_out_all has returned with nothing else in flight, count() is
\* 0, and a pop that follows returns empty
C5_DrainPostcondition ==
    \A i \in 1..Len(hist) :
        hist[i].op = "drop_out_all" =>
            /\ (i = Len(hist) /\ AllIdle) => list_count[hist[i].list] = 0
            /\ (i < Len(hist) /\ hist[i + 1].op = "pop"
                  /\ hist[i + 1].list = hist[i].list) => ~hist[i + 1].some

\* C6: after A.prepend_with(B) with nothing else in flight, count(A) is the
\* former count(A) + count(B), count(B) is 0, B holds no item, and A's chain
\* is B's former buffers followed by A's former buffers, with their items
C6_SplicePostcondition ==
    (AllIdle /\ Len(hist) > 0 /\ LastOp.op = "prepend_with") =>
        LET a == LastOp.list
            b == LastOp.other
            pre == LastOp.pre
        IN  /\ list_count[a] = pre.count[a] + pre.count[b]
            /\ list_count[b] = 0
            /\ ChainItems(b) = <<>>
            /\ ChainItems(a) = pre.items[b] \o pre.items[a]
            /\ LastOp.some => Chain(a) = pre.chain[b] \o pre.chain[a]
            /\ \A i \in 1..Len(Chain(a)) : heap[Chain(a)[i]].state = "live"

\* a splice moved a chain of two buffers in front of a list that held an item
C6_Witness ==
    /\ AllIdle
    /\ Len(hist) > 0
    /\ LastOp.op = "prepend_with"
    /\ LastOp.some
    /\ Len(LastOp.pre.chain[LastOp.other]) = 2
    /\ LastOp.pre.items[LastOp.list] # <<>>
    /\ Len(ChainItems(LastOp.list)) = 3

\* C9: with no operation in flight, count() is the number of items pushed
\* and not yet removed by a pop or a drain
C9_CountIsOccupancy ==
    AllIdle => \A l \in Lists : list_count[l] = OccAfter(Len(hist))[l]

\* C10: on a list that holds no item pop returns empty and drop_out_all
\* returns absent, prepend_with of a source that holds no item has no
\* effect, and each leaves the chains, cursors, flags and counts as they were
C10_EmptyCases ==
    (AllIdle /\ Len(hist) > 0) =>
        /\ (LastOp.op \in {"pop", "drop_out_all"}
              /\ LastOp.pre.items[LastOp.list] = <<>>)
              => (~LastOp.some /\ SameAs(LastOp.pre))
        /\ (LastOp.op = "prepend_with" /\ LastOp.pre.items[LastOp.other] = <<>>)
              => SameAs(LastOp.pre)

(* ------------------------- reference counting ------------------------- *)
PushPcs == {"push_slot", "push_new", "push_cas_head", "push_unref_new",
            "push_drop", "push_cas_slot", "push_write", "push_publish",
            "push_panic",
            "push_count", "push_ret"}
ExclusivePcs == {"xp_slot", "xp_new", "xp_store_head", "xp_cas_head",
                 "xp_unref_new", "xp_drop", "xp_store_slot", "xp_write",
                 "xp_publish",
                 "xp_count", "xp_ret"}
PopPcs == {"pop_slot", "pop_next", "pop_cas_head", "pop_unref_head",
           "pop_load_flag", "pop_cas_flag", "pop_cas_slot", "pop_sentinel",
           "pop_drop", "pop_ret"}
DrainPcs == {"drain_next", "drain_cas_refs", "drain_flush", "drain_panic",
             "drain_unref", "drain_drop", "drain_break"}
PrependPcs == {"pp_wait", "pp_next", "pp_borrow_next", "pp_drop_tail",
               "pp_load_head", "pp_cas", "pp_link", "pp_add", "pp_ret"}

\* the buffers thread t holds through a live BufferRef
Borrowed(t) ==
    IF pc[t] \in PushPcs \cup ExclusivePcs \cup PopPcs THEN {loc[t].head_ptr}
    ELSE IF pc[t] \in DrainPcs THEN {loc[t].buffer}
    ELSE IF pc[t] = "pp_drop_tail" THEN {loc[t].other_tail, loc[t].next_ptr}
    ELSE IF pc[t] \in PrependPcs THEN {loc[t].other_tail}
    ELSE {}

\* C7: a buffer that is a list's current buffer, is reachable from it along
\* next, or is held through a live buffer reference has not been destroyed
C7_NoDestroyWhileHeld ==
    \A b \in BufIds :
        ((\E l \in Lists : b \in ChainSet(l)) \/ (\E t \in Threads : b \in Borrowed(t)))
            => heap[b].state # "freed"

\* C8: no thread increments the reference count of, reads or writes a buffer
\* that has been destroyed, and none is destroyed twice
C8_NoUseAfterFree == ~ub

\* the pops that returned tag g
PopsOf(g) == {i \in 1..Len(hist) : hist[i].op = "pop" /\ hist[i].some /\ hist[i].val = <<g>>}
\* the slots of the buffers of list l that store tag g
SlotsOf(l, g) ==
    {s \in ChainSet(l) \X SlotIdx :
        /\ heap[s[1]].state = "live"
        /\ s[2] < heap[s[1]].cap
        /\ heap[s[1]].flags[s[2]] = g}
\* the pops in flight that have taken tag g out of its slot
HeldBy(g) == {t \in Threads : loc[t].op = "pop" /\ loc[t].res = <<g>>}

\* C2: under any interleaving of pushes and pops every pushed item is in
\* exactly one place: stored in a slot of the list, taken by the one pop that is
\* about to return it, or returned by exactly one pop; none is lost, none is
\* returned twice
C2_Conservation ==
    \A g \in PushedBefore("A", Len(hist)) :
        Cardinality(PopsOf(g)) + Cardinality(SlotsOf("A", g))
            + Cardinality(HeldBy(g)) = 1

(* ------ one thread: push on B, then the same exclusive_push on A ------ *)
\* the calls on list l that returned
CallsOn(l) == {i \in 1..Len(hist) : hist[i].list = l}

NextEquiv ==
    \/ /\ started < 2 * (MaxCap + 1)
       /\ Cardinality(CallsOn("B")) = Cardinality(CallsOn("A"))
       /\ PushStart(1, "B")
    \/ /\ Cardinality(CallsOn("B")) > Cardinality(CallsOn("A"))
       /\ ExclusivePushStart(1, "A")
    \/ ExclusiveStep(1)
    \/ PushLoadHead(1) \/ PushBorrow(1) \/ PushLoadSlot(1) \/ PushNew(1)
    \/ PushCasHead(1) \/ PushDrop(1) \/ PushCasSlot(1) \/ PushWrite(1)
    \/ PushPublish(1)
    \/ PushCount(1) \/ PushRet(1)

SpecEquiv == InitLifo /\ [][NextEquiv]_vars

\* the rank of tag g among the tags passed to the calls on list l
RankOn(l, g) == Cardinality({i \in CallsOn(l) : hist[i].flag <= g})

\* the chain of list l without addresses and tags: cursor, reference count
\* and slots of each buffer, a tag shown as the rank of its call on the list
ShapeOf(l) ==
    [i \in 1..Len(Chain(l)) |->
        LET b == Chain(l)[i]
        IN  [state |-> heap[b].state,
             head |-> heap[b].head,
             refs |-> heap[b].refs,
             slots |-> [j \in 0..(buffer_cap[l] - 1) |->
                          IF heap[b].flags[j] \in {EMPTY_SLOT, SENTINEL_SLOT}
                          THEN heap[b].flags[j]
                          ELSE FirstTag + RankOn(l, heap[b].flags[j])]]]

\* C11: with no other pusher, exclusive_push leaves the chain, the slots, the
\* cursors and the count as push leaves them on a list in the same state,
\* also when the current buffer is full: the new buffer becomes the current
\* one, stays live and receives the item
C11_ExclusiveAsPush ==
    /\ ~ub
    /\ \A b \in ChainSet("A") : heap[b].state = "live"
    /\ (pc[1] = "idle" /\ Cardinality(CallsOn("A")) = Cardinality(CallsOn("B")))
          => (ShapeOf("A") = ShapeOf("B") /\ list_count["A"] = list_count["B"])

(* ----------- two threads: pushes racing with one drain of A ------------ *)
NoDrainCalled ==
    /\ \A i \in 1..Len(hist) : hist[i].op # "drop_out_all"
    /\ \A t \in Threads : loc[t].op # "drop_out_all" /\ pc[t] # "panicked"

NextDrainConc ==
    \/ \E t \in Threads : Budget /\ PushStart(t, "A")
    \/ \E t \in Threads : PushStep(t) \/ PushPanic(t)
    \/ Budget /\ NoDrainCalled /\ DrainStart(1, "A")
    \/ DrainStep(1)

SpecDrainConc == InitPushDrain /\ [][NextDrainConc]_vars

\* the drains that returned tag g in their snapshot
DrainsOf(g) ==
    {i \in 1..Len(hist) : hist[i].op = "drop_out_all" /\ g \in Range(hist[i].val)}

\* C12: once the drop_out_all that raced with pushes has returned, every tag
\* whose push has returned is in the returned snapshot or stored in a slot of
\* the list, and not in both
C12_PushesRacingDrain ==
    (\E i \in 1..Len(hist) : hist[i].op = "drop_out_all") =>
        \A g \in PushedBefore("A", Len(hist)) :
            Cardinality(DrainsOf(g)) + Cardinality(SlotsOf("A", g)) = 1

(* ------------------------------ WordList ------------------------------ *)
\* the machine words, at the width of the model
Words == 0..(Pow2(WordBits) - 1)

\* data + SLOT_DATA_OFFSET in word arithmetic
WordListEncode(data) == (data + SLOT_DATA_OFFSET) % Pow2(WordBits)
\* data - SLOT_DATA_OFFSET in word arithmetic
WordListDecode(data) == (data + Pow2(WordBits) - SLOT_DATA_OFFSET) % Pow2(WordBits)

\* WordList::push(data): self.inner.push(data + SLOT_DATA_OFFSET, ()); with
\* overflow checks the addition panics instead of wrapping
WordListPushStart(t, l, data) ==
    /\ At(t, "idle")
    /\ started' = started + 1
    /\ IF debug_assertions /\ data + SLOT_DATA_OFFSET >= Pow2(WordBits)
       THEN Goto(t, "panicked", NoLocals)
       ELSE Goto(t, "push_load",
                 [NoLocals EXCEPT !.op = "push", !.list = l, !.other = l,
                                  !.flag = WordListEncode(data), !.word = data])
    /\ UNCHANGED <<heap, list_head, list_count, hist, ub, debug_failed, Env>>

\* one thread: WordList pushes of any words, then one drain
NextWord ==
    \/ \E x \in Words : started < 2 /\ NoDrainCalled /\ WordListPushStart(1, "A", x)
    \/ started >= 1 /\ started < 3 /\ NoDrainCalled /\ DrainStart(1, "A")
    \/ PushLoadHead(1) \/ PushBorrow(1) \/ PushLoadSlot(1) \/ PushNew(1)
    \/ PushCasHead(1) \/ PushDrop(1) \/ PushCasSlot(1) \/ PushWrite(1)
    \/ PushPublish(1)
    \/ PushCount(1) \/ PushRet(1)
    \/ DrainStep(1)

SpecWord == InitPushDrain /\ [][NextWord]_vars

\* the words of the WordList pushes that returned among the first n calls
RECURSIVE WordsPushed(_)
WordsPushed(n) ==
    IF n = 0 THEN <<>>
    ELSE IF hist[n].op = "push" THEN WordsPushed(n - 1) \o <<hist[n].word>>
    ELSE WordsPushed(n - 1)

\* WordList::drop_out_all: the tags of the inner snapshot, each decoded
DecodedVec(val) == [i \in 1..Len(val) |-> WordListDecode(val[i])]

\* C13: the tag a WordList push stores for a word is neither empty nor the
\* sentinel, and the drain of a list of one buffer returns the pushed words
C13_WordEncoding ==
    /\ \A t \in Threads :
          loc[t].op = "push" => loc[t].flag \notin {EMPTY_SLOT, SENTINEL_SLOT}
    /\ \A i \in 1..Len(hist) :
          (hist[i].op = "drop_out_all" /\ Len(WordsPushed(i)) <= buffer_cap["A"])
              => (hist[i].some /\ DecodedVec(hist[i].val) = WordsPushed(i))

(* ----------------------------- completion ----------------------------- *)
\* C14: the only thread being scheduled for ever, every call it makes
\* returns; so does a pop called on a list that holds a published item
C14_EventualCompletion == (pc[1] # "idle") ~> (pc[1] = "idle")

(* -------------------------- write, then publish ------------------------ *)
\* every slot of the flag array that holds a tag has its payload written
PublishedAreWritten ==
    \A b \in BufIds :
        heap[b].state = "live" =>
            \A i \in 0..(heap[b].cap - 1) :
                heap[b].flags[i] \notin {EMPTY_SLOT, SENTINEL_SLOT} => heap[b].data[i]

\* C15: a slot whose flag is neither empty nor the sentinel has had its
\* payload written, and every payload a pop has read was one that had been
\* written
C15_WriteThenPublish ==
    /\ PublishedAreWritten
    /\ \A t \in Threads : loc[t].payload_ok
    /\ \A i \in 1..Len(hist) : hist[i].payload_ok

(* ------------------------- the slot pop inspects ----------------------- *)
\* C16: a pop that read the cursor s > 0 inspects slot s - 1, an index below
\* the capacity of the buffer: the flag it has loaded is the flag of the slot
\* the last push reserved
C16_PopInspectsTopSlot ==
    \A t \in Threads :
        pc[t] \in {"pop_load_flag", "pop_cas_flag"} =>
            /\ loc[t].slot > 0
            /\ PopSlotIndex(loc[t].slot) = loc[t].slot - 1
            /\ PopSlotIndex(loc[t].slot) < heap[loc[t].head_ptr].cap
            /\ pc[t] = "pop_cas_flag" =>
                  loc[t].slot_flag = heap[loc[t].head_ptr].flags[loc[t].slot - 1]

(* ------------------------------- flush --------------------------------- *)
\* C17: whenever flush_buffer runs, from the last release of a buffer or from
\* drop_out_all, the reference count of the buffer is at most 2: the debug
\* assertion of flush_buffer never fails
C17_FlushPrecondition ==
    /\ ~debug_failed
    /\ \A t \in Threads : pc[t] # "drain_panic"

\* the buffers that are allocated and in the chain of no list
Detached == {b \in BufIds : heap[b].state = "live" /\ \A l \in Lists : b \notin ChainSet(l)}

\* C18: when drop_out_all has returned and no operation is in flight, every
\* buffer it detached and flushed has been destroyed: no buffer outside the
\* chains stays allocated
C18_DrainedBuffersFreed ==
    (AllIdle /\ \E i \in 1..Len(hist) : hist[i].op = "drop_out_all") => Detached = {}

\* C19: the slot a push has reserved is empty when the push swaps its tag in:
\* the assert_eq of push never fails
C19_PublishAssertion == \A t \in Threads : pc[t] # "push_panic"

(* ------------------------------- splice -------------------------------- *)
\* two pushes by thread 1, then A.prepend_with(B) by thread 1 while thread 2
\* drains A
NextSplice ==
    \/ \E l \in Lists : started < 2 /\ AllIdle /\ PushStart(1, l)
    \/ /\ started >= 2 /\ started < 4
       /\ \A i \in 1..Len(hist) : hist[i].op = "push"
       /\ loc[2].op = "idle"
       /\ PrependStart(1, "A", "B")
    \/ started >= 2 /\ started < 4 /\ NoDrainCalled /\ DrainStart(2, "A")
    \/ PushLoadHead(1) \/ PushBorrow(1) \/ PushLoadSlot(1) \/ PushNew(1)
    \/ PushCasHead(1) \/ PushDrop(1) \/ PushCasSlot(1) \/ PushWrite(1)
    \/ PushPublish(1) \/ PushCount(1) \/ PushRet(1)
    \/ PrependStep(1)
    \/ DrainStep(2)

SpecSplice == InitEnv /\ [][NextSplice]_vars

\* when the splice and the drain have returned, every pushed tag is in the
\* drained snapshot or stored in a slot of A's chain
SpliceStrandsNothing ==
    (AllIdle /\ Len(hist) = 4) =>
        \A g \in PushedBefore("A", Len(hist)) \cup PushedBefore("B", Len(hist)) :
            Cardinality(DrainsOf(g)) + Cardinality(SlotsOf("A", g)) = 1

\* the buffers of list l that held items when the snapshot pre was taken
HeldItems(pre, l) ==
    {b \in Range(pre.chain[l]) : Flushed(pre.heap, b) # <<>>}

\* at every step of A.prepend_with(B), as long as no drain has detached
\* them, the buffers that held A's items when the call began are in A's chain
ChainReachable ==
    \A t \in Threads :
        (loc[t].op = "prepend_with" /\ NoDrainCalled) =>
            HeldItems(loc[t].pre, loc[t].list) \subseteq ChainSet(loc[t].list)

\* C20: at every step of A.prepend_with(B) the buffers that hold A's items
\* are reachable from A's current buffer along next, and a drain that runs
\* next to the splice strands no item
C20_ChainNeverBroken == ChainReachable /\ SpliceStrandsNothing

(* ----------------------- order of the snapshot ------------------------- *)
\* thread 1 pushes and then drains A; thread 2 may pop A at any time and push
\* to A once the drain has been called
NextOrder ==
    \/ started < MaxOps /\ NoDrainCalled /\ PushStart(1, "A")
    \/ Budget /\ started >= 1 /\ NoDrainCalled /\ DrainStart(1, "A")
    \/ Budget /\ ~NoDrainCalled /\ PushStart(2, "A")
    \/ Budget /\ PopStart(2, "A")
    \/ \E t \in Threads :
          \/ PushLoadHead(t) \/ PushBorrow(t) \/ PushLoadSlot(t) \/ PushNew(t)
          \/ PushCasHead(t) \/ PushUnrefNew(t) \/ PushDrop(t) \/ PushCasSlot(t)
          \/ PushWrite(t) \/ PushPublish(t) \/ PushPanic(t) \/ PushCount(t)
          \/ PushRet(t)
    \/ PopStep(2) \/ PopCasHead(2) \/ PopUnrefHead(2) \/ PopSentinel(2)
    \/ DrainStep(1)

SpecOrder == InitPushDrain /\ [][NextOrder]_vars

IsTag(x) == x # EMPTY_SLOT /\ x # SENTINEL_SLOT

\* the tags in the slots below the cursor of buffer b, in ascending slot order
TagsInOrder(h, b) == SelectSeq([i \in 1..h[b].head |-> h[b].flags[i - 1]], IsTag)

\* the tags of the pushes that returned among the first n calls, in order
RECURSIVE PushTags(_)
PushTags(n) ==
    IF n = 0 THEN <<>>
    ELSE IF hist[n].op = "push" THEN PushTags(n - 1) \o <<hist[n].flag>>
    ELSE PushTags(n - 1)

\* tags pushed one after the other into buffers of capacity cap, read buffer
\* by buffer from the newest to the oldest, each in the order pushed
RECURSIVE NewestFirst(_, _)
NewestFirst(tags, cap) ==
    IF Len(tags) <= cap THEN tags
    ELSE NewestFirst(SubSeq(tags, cap + 1, Len(tags)), cap) \o SubSeq(tags, 1, cap)

\* a drain called after pushes that returned one after the other, nothing
\* else having been called, returns the tags buffer by buffer, newest buffer
\* first, each buffer in push order
DrainOrder ==
    (/\ Len(hist) > 0
     /\ LastOp.op = "drop_out_all"
     /\ started = Len(hist)
     /\ \A i \in 1..(Len(hist) - 1) :
            hist[i].op = "push" /\ hist[i].flag < LastOp.flag)
        => LastOp.val = NewestFirst(PushTags(Len(hist)), buffer_cap["A"])

\* the flush of a buffer by the drain appends the tags below the cursor in
\* ascending slot order and leaves out empty and sentinel slots
FlushStep ==
    (pc[1] = "drain_flush" /\ pc'[1] = "drain_unref")
        => loc'[1].res = loc[1].res \o TagsInOrder(heap, loc[1].buffer)

\* the drain goes on with the buffer that next of the flushed one names, and
\* returns what the flushes collected
WalkStep ==
    /\ (pc[1] = "drain_unref" /\ pc'[1] = "drain_drop")
          => loc'[1].buffer_ptr = heap[loc[1].buffer].next
    /\ (pc[1] = "drain_sub" /\ pc'[1] = "idle")
          => hist'[Len(hist')].val = loc[1].res

InitCaps ==
    /\ \E capA \in 1..MaxCap : \E capB \in 1..MaxCap :
          \E w \in PastEndWords : InitLists(capA, capB, w)
    /\ debug_assertions \in BOOLEAN
    /\ snapshots = FALSE

SpecCaps == InitCaps /\ [][NextSeq]_vars

\* every buffer of the chain of every list has the capacity of the list
ChainCapacityUniform ==
    \A l \in Lists : \A b \in ChainSet(l) :
        heap[b].state = "live" => heap[b].cap = buffer_cap[l]

\* a push that reserved a slot reserved one the buffer was created with
ReservedWithinCapacity ==
    \A t \in Threads :
        (pc[t] \in {"push_write", "push_publish", "push_count"}
            /\ heap[loc[t].head_ptr].state = "live")
            => loc[t].slot < heap[loc[t].head_ptr].cap

\* C22: every buffer in the chain of a list was created with the
\* buffer_capacity of that list, and no push reserves a slot index at or
\* beyond the capacity its buffer was created with
C22_UniformCapacity == ChainCapacityUniform /\ ReservedWithinCapacity

====
